---- MODULE Spec2Model ----
(***************************************************************************)
(* Model of the text-to-SQL pipeline of src/texttosql: the root            *)
(* SequentialAgent (capture_user_message, SchemaExtractor,                 *)
(* sql_generator_agent, CorrectionLoopAgent), the SQLProcessor and the     *)
(* tool functions run_sql_validation / run_sql_execution that it calls.    *)
(*                                                                         *)
(* One session is modelled.  A turn is one run of the root agent.  The     *)
(* variable trace records, in program order, every event the agents yield  *)
(* (ev = TRUE) and every call that leaves the process (validator call,     *)
(* database connection; ev = FALSE) during the current turn.               *)
(***************************************************************************)
EXTENDS Integers, Sequences, FiniteSets, TLC

VARIABLES
    DB_URI,          \* config.DB_URI, read once at import
    max_iterations,  \* CorrectionLoopAgent._max_iterations
    state,           \* ctx.session.state
    pc,              \* position of the pipeline
    i,               \* loop variable of CorrectionLoopAgent._run_async_impl
    val_result,      \* local val_result of SQLProcessor._run_async_impl
    trace,           \* events yielded and external calls made in this turn
    succeeded_before,\* some earlier turn of the session set final_sql_query
    DB_DIALECT,      \* config.DB_DIALECT, read once at import
    \* The schema cache of dialects/dialect.py and its callers.
    dialects,        \* the DatabaseDialect instances built so far
    stats,           \* per instance and URI: extractions, parses, first entry
    callers,         \* the threads calling get_ddl / get_sqlglot_schema
    concurrent,      \* whether calls of different threads may overlap
    ncalls,          \* number of cache calls begun
    \* engine.py on its own.
    conns,           \* the connections get_connection has returned
    engine,          \* the SQLValidator / SQLExecutor call in progress
    \* DatabaseDialect._parse_ddl_to_sqlglot_schema on its own.
    parser,          \* the parse in progress
    \* The callbacks, tools and type mappings applied on their own.
    unit             \* the function applied, its arguments and its result

cacheVars == <<dialects, stats, callers, concurrent, ncalls>>
engineVars == <<conns, engine>>
parserVars == <<parser>>
unitVars == <<unit>>
pipelineVars == <<DB_URI, max_iterations, state, pc, i, val_result, trace,
                  succeeded_before, DB_DIALECT>>

\* What the steps of the pipeline leave alone besides their own variables.
aux == <<DB_DIALECT, cacheVars, engineVars, parserVars, unitVars>>

vars == <<pipelineVars, cacheVars, engineVars, parserVars, unitVars>>

(***************************************************************************)
(* Bound of the model: the largest max_iterations a loop is built with.    *)
(***************************************************************************)
MaxIterBound == 3

(***************************************************************************)
(* Values.                                                                 *)
(***************************************************************************)
None == "<None>"      \* Python None
Absent == "<absent>"  \* a key a dict does not have

\* Texts an LLM agent can answer with, after clean_sql_query.  Each stands
\* for a class of candidate queries, named by what the validator and the
\* database do with it.
QUnresolved == "SELECT last_name FROM customer;"
QNoTable == "SELECT id FROM orders;"
QSilent == "SELECT 1/0;"
QOk == "SELECT COUNT(*) FROM customer;"
LLMOutputs == {"", QUnresolved, QNoTable, QSilent, QOk}

\* Python truthiness of an optional string.
Truthy(s) == s # None /\ s # ""

NoResult == [status |-> None, errors |-> <<>>, error_message |-> Absent,
             reason |-> Absent, result |-> Absent]

ValidationSuccess == [NoResult EXCEPT !.status = "success"]
ValidationError(msgs) == [NoResult EXCEPT !.status = "error", !.errors = msgs]
ExecutionSuccess(rows) == [NoResult EXCEPT !.status = "success", !.result = rows]
ExecutionError(msg) == [NoResult EXCEPT !.status = "error", !.error_message = msg]
\* Mutant: the skip is recorded as an execution error.
ExecutionSkipped_AsError ==
    [NoResult EXCEPT !.status = "error", !.error_message = "validation_failed"]

ExecutionSkipped == [NoResult EXCEPT !.status = "skipped",
                                     !.reason = "validation_failed"]

\* Trace entries.
Event(author, kind, arg, arg2) ==
    [ev |-> TRUE, author |-> author, kind |-> kind, arg |-> arg, arg2 |-> arg2]
Call(author, kind, arg) ==
    [ev |-> FALSE, author |-> author, kind |-> kind, arg |-> arg, arg2 |-> ""]

LoopName == "SQLCorrectionLoop"
ProcessorName == "SQLProcessor"
CorrectorName == "sql_corrector_agent"
GeneratorName == "sql_generator_agent"
ExtractorName == "SchemaExtractor"

(***************************************************************************)
(* engine.py                                                               *)
(***************************************************************************)
\* SQLValidator.validate: parse, then qualify against the schema; any
\* exception becomes {"status": "error", "errors": [str(e)]}.
SQLValidator_validate(sql_query) ==
    IF sql_query = QUnresolved
    THEN ValidationError(<<"Column 'last_name' could not be resolved">>)
    ELSE ValidationSuccess

\* SQLExecutor.execute: (rows, None) or (None, str(e)).
SQLExecutor_execute(sql_query) ==
    CASE sql_query = QNoTable -> [rows |-> None, error |-> "no such table: orders"]
      [] sql_query = QSilent -> [rows |-> None, error |-> ""]
      [] OTHER -> [rows |-> "rows", error |-> None]

(***************************************************************************)
(* tools.py                                                                *)
(***************************************************************************)
\* Mutant: the "error" in sqlglot_schema test is left out.
SchemaUnavailable_IgnoresError(st) ==
    st.sqlglot_schema \in {None, "empty"}

\* not sqlglot_schema or "error" in sqlglot_schema
SchemaUnavailable(st) ==
    st.sqlglot_schema \in {None, "empty", "error"}

\* The value run_sql_validation returns.
run_sql_validation(st) ==
    IF ~Truthy(st.sql_query)
    THEN ValidationError(<<"No SQL query found in state to validate.">>)
    ELSE IF SchemaUnavailable(st)
    THEN ValidationError(<<"Database schema not available for validation.">>)
    ELSE SQLValidator_validate(st.sql_query)

\* The state run_sql_validation leaves: only the validator's verdict is
\* written to state["validation_result"]; the two early returns write nothing.
StateAfterValidation(st) ==
    IF ~Truthy(st.sql_query) \/ SchemaUnavailable(st)
    THEN st
    ELSE [st EXCEPT !.validation_result = SQLValidator_validate(st.sql_query)]

\* Mutant: the executor is reached whether or not DB_URI is set.
ExecutionConnects_WithoutURI(st, uri) == Truthy(st.sql_query)

\* Whether run_sql_execution reaches SQLExecutor.execute (and so
\* dialect.get_connection).
ExecutionConnects(st, uri) == Truthy(uri) /\ Truthy(st.sql_query)

\* The value run_sql_execution returns.
run_sql_execution(st, uri) ==
    IF ~Truthy(uri) THEN ExecutionError("DB_URI not set.")
    ELSE IF ~Truthy(st.sql_query)
    THEN ExecutionError("No SQL query found in state to execute.")
    ELSE LET r == SQLExecutor_execute(st.sql_query)
         IN IF Truthy(r.error) THEN ExecutionError(r.error)
                               ELSE ExecutionSuccess(r.rows)

\* Mutant: a failed execution is returned but not written to the state.
StateAfterExecution_ErrorUnwritten(st, uri) ==
    IF ~Truthy(uri) \/ run_sql_execution(st, uri).status = "error" THEN st
    ELSE [st EXCEPT !.execution_result = run_sql_execution(st, uri)]

\* The state run_sql_execution leaves: the DB_URI early return writes nothing.
StateAfterExecution(st, uri) ==
    IF ~Truthy(uri) THEN st
    ELSE [st EXCEPT !.execution_result = run_sql_execution(st, uri)]

\* load_schema_into_state; outcome is what extraction does when attempted.
load_schema_into_state(st, uri, outcome) ==
    IF ~Truthy(uri) \/ outcome = "raises"
    THEN [st EXCEPT !.schema_ddl = "Error loading schema", !.sqlglot_schema = "error"]
    ELSE IF outcome = "empty"
    THEN [st EXCEPT !.schema_ddl = "", !.sqlglot_schema = "empty"]
    ELSE [st EXCEPT !.schema_ddl = "ddl", !.sqlglot_schema = "tables"]

(***************************************************************************)
(* callbacks.py                                                            *)
(***************************************************************************)
\* Mutant: the callback forgets to clear final_sql_query.
capture_user_message_KeepsFinal(st) ==
    [st EXCEPT !.sql_query = None, !.validation_result = NoResult,
               !.execution_result = NoResult]

capture_user_message(st) ==
    [st EXCEPT !.sql_query = None, !.validation_result = NoResult,
               !.execution_result = NoResult, !.final_sql_query = None]

(***************************************************************************)
(* dialects/factory.py                                                     *)
(***************************************************************************)
SupportedDialects == {"sqlite", "postgresql"}
ValueError == "ValueError"

\* get_dialect: the name of the dialect class instantiated, or ValueError.
get_dialect(dialect_name) ==
    IF dialect_name = "sqlite" THEN "sqlite"
    ELSE IF dialect_name = "postgresql" THEN "postgresql"
    ELSE ValueError

(***************************************************************************)
(* The components modelled on their own below, at rest.                    *)
(***************************************************************************)
Threads == {1, 2}
MainThread == 1

\* A thread outside get_ddl / get_sqlglot_schema: the call it made last (none
\* yet), the locals of _ensure_schema_cached, how the call ended ("none",
\* "returned" or "raised") and the value it returned.
IdleCaller ==
    [pc |-> "idle", inst |-> 0, uri |-> None, method |-> None,
     ddl_string |-> <<>>, sqlglot_schema |-> <<>>, before |-> <<>>,
     outcome |-> "none", ddl |-> <<>>, schema |-> <<>>]

CacheIdle ==
    /\ dialects = <<>>
    /\ stats = <<>>
    /\ callers = [t \in Threads |-> IdleCaller]
    /\ ncalls = 0

\* An optional value: <<>> is Python's None, <<v>> is the value v.
Nothing == <<>>
Some(v) == <<v>>

NoException == [class |-> None, message |-> None]

\* No call of validate / execute in progress or made yet: the call and its
\* arguments, the connection in use, the phases of validate entered, the
\* step that failed and the exception raised, the rows fetched, whether the
\* call has returned or let an exception escape, and the value returned.
IdleEngine ==
    [pc |-> "idle", op |-> None, sql_query |-> None, schema |-> <<>>,
     conn |-> 0, phases |-> <<>>, failed_at |-> None, exc |-> NoException,
     fetched |-> <<>>, returned |-> FALSE, escaped |-> FALSE,
     rows |-> Nothing, error |-> Nothing, status |-> None, errors |-> <<>>,
     calls |-> 0]

EngineIdle ==
    /\ conns = <<>>
    /\ engine = IdleEngine

IdleParser ==
    [pc |-> "idle", source |-> <<>>, ddl_string |-> <<>>, statements |-> <<>>,
     sqlglot_schema |-> <<>>, result |-> None]

ParserIdle == parser = IdleParser

\* No function applied yet.
IdleUnit == [fn |-> None]
UnitIdle == unit = IdleUnit

(***************************************************************************)
(* Initial state: a fresh session, no turn started.                        *)
(***************************************************************************)
InitState ==
    [sql_query |-> None, validation_result |-> NoResult,
     execution_result |-> NoResult, final_sql_query |-> None,
     schema_ddl |-> None, sqlglot_schema |-> None]

\* A process configured with one of the given DB_DIALECT values.
PipelineStart(dialect_names) ==
    /\ DB_DIALECT \in dialect_names
    /\ DB_URI \in {"", "sakila_master.db"}
    /\ max_iterations \in 1..MaxIterBound
    /\ state = InitState
    /\ pc = "idle"
    /\ i = 0
    /\ val_result = NoResult
    /\ trace = <<>>
    /\ succeeded_before = FALSE

PipelineInit(dialect_names) ==
    /\ PipelineStart(dialect_names)
    /\ CacheIdle /\ EngineIdle /\ ParserIdle /\ UnitIdle
    /\ concurrent = FALSE

\* The default configuration: DB_DIALECT = "sqlite".
Init == PipelineInit({"sqlite"})

(***************************************************************************)
(* agent.py: root SequentialAgent.                                         *)
(***************************************************************************)
\* A new user message arrives: before_agent_callback runs, then the first
\* sub-agent is entered.
StartTurn ==
    /\ pc \in {"idle", "done", "crashed"}
    /\ state' = capture_user_message(state)
    /\ succeeded_before' = (succeeded_before \/ state.final_sql_query # None)
    /\ trace' = <<>>
    /\ i' = 0
    /\ val_result' = NoResult
    /\ pc' = ExtractorName
    /\ UNCHANGED <<aux, DB_URI, max_iterations>>

(***************************************************************************)
(* agents.py                                                               *)
(***************************************************************************)
\* The record of the extraction load_schema_into_state attempts, with what
\* the extraction did.
ExtractionCall(outcome) ==
    [Call(ExtractorName, "connect", "schema") EXCEPT !.arg2 = outcome]

\* Mutant: the extractor yields nothing.
SchemaLoadedEvents_Silent == <<>>

\* yield Event(author=self.name, custom_metadata={"status": "schema_loaded"})
SchemaLoadedEvents == <<Event(ExtractorName, "schema_loaded", "", "")>>

\* get_dialect() raises for an unsupported DB_DIALECT and nothing in the
\* agent or the SequentialAgent catches it; otherwise the schema is loaded.
SchemaExtractor_run ==
    /\ pc = ExtractorName
    /\ IF get_dialect(DB_DIALECT) = ValueError
       THEN /\ pc' = "crashed"
            /\ UNCHANGED <<state, trace>>
       ELSE /\ \E outcome \in {"tables", "empty", "raises"} :
                 /\ state' = load_schema_into_state(state, DB_URI, outcome)
                 /\ trace' = trace
                        \o (IF Truthy(DB_URI)
                            THEN <<ExtractionCall(outcome)>> ELSE <<>>)
                        \o SchemaLoadedEvents
            /\ pc' = GeneratorName
    /\ UNCHANGED <<aux, DB_URI, max_iterations, i, val_result, succeeded_before>>

\* An LLM agent with output_key="sql_query": its answer is written to state
\* and yielded as a content event.
LlmAgent_run(name, next) ==
    /\ pc = name
    /\ \E text \in LLMOutputs :
         /\ state' = [state EXCEPT !.sql_query = text]
         /\ trace' = Append(trace, Event(name, "content", text, ""))
    /\ pc' = next

sql_generator_agent_run ==
    /\ LlmAgent_run(GeneratorName, "loop_for")
    /\ UNCHANGED <<aux, DB_URI, max_iterations, i, val_result, succeeded_before>>

\* Mutant: the loop bound is off by one.
LoopHasNext_OffByOne(idx, n) == idx <= n

\* for i in range(self._max_iterations): whether the body runs for index idx.
LoopHasNext(idx, n) == idx < n

\* Mutant: sub-agents are run without the announcing event.
HandoffEvent_Silent(name) == <<>>

\* The custom event announcing a sub-agent run.
HandoffEvent(name) == <<Event(LoopName, "invoking_sub_agent", name, "")>>

\* Mutant: the final query is stored in state but never yielded.
FinalQueryEvents_Silent(final_query) == <<>>

\* The content event carrying the final query, yielded only "if final_query".
FinalQueryEvents(final_query) ==
    IF Truthy(final_query)
    THEN <<Event(LoopName, "content", final_query, "")>>
    ELSE <<>>

\* CorrectionLoopAgent, top of the for loop with iterations left.
Loop_InvokeProcessor ==
    /\ pc = "loop_for"
    /\ LoopHasNext(i, max_iterations)
    /\ trace' = trace \o HandoffEvent(ProcessorName)
    /\ pc' = "processor_validate"
    /\ UNCHANGED <<aux, DB_URI, max_iterations, state, i, val_result, succeeded_before>>

\* The event SQLProcessor yields after validation:
\* custom_metadata={"validation_result": val_result}.
ValidationEvent(vr) ==
    Event(ProcessorName, "validation_result", vr.status,
          IF vr.errors = <<>> THEN "" ELSE vr.errors[1])

\* The event SQLProcessor yields after execution:
\* custom_metadata={"execution_result": exec_result}.
ExecutionEvent(er) ==
    Event(ProcessorName, "execution_result", er.status, er.error_message)

\* SQLProcessor, up to its first yield.
SQLProcessor_Validate ==
    /\ pc = "processor_validate"
    /\ val_result' = run_sql_validation(state)
    /\ state' = StateAfterValidation(state)
    /\ trace' = trace
           \o <<Call(ProcessorName, "validate", state.sql_query)>>
           \o <<ValidationEvent(run_sql_validation(state))>>
    /\ pc' = "processor_branch"
    /\ UNCHANGED <<aux, DB_URI, max_iterations, i, succeeded_before>>

\* Mutant: the processor executes whatever the validation said.
ProcessorExecutes_Always(vr) == TRUE

\* Whether SQLProcessor takes the execution branch.
ProcessorExecutes(vr) == vr.status = "success"

\* SQLProcessor, validation passed: execute and yield the outcome.
SQLProcessor_Execute ==
    /\ pc = "processor_branch"
    /\ ProcessorExecutes(val_result)
    /\ state' = StateAfterExecution(state, DB_URI)
    /\ trace' = trace
           \o (IF ExecutionConnects(state, DB_URI)
               THEN <<Call(ProcessorName, "connect", state.sql_query)>> ELSE <<>>)
           \o <<ExecutionEvent(run_sql_execution(state, DB_URI))>>
    /\ pc' = "loop_check"
    /\ UNCHANGED <<aux, DB_URI, max_iterations, i, val_result, succeeded_before>>

\* SQLProcessor, validation failed: record the skip, yield nothing.
SQLProcessor_Skip ==
    /\ pc = "processor_branch"
    /\ ~ProcessorExecutes(val_result)
    /\ state' = [state EXCEPT !.execution_result = ExecutionSkipped]
    /\ pc' = "loop_check"
    /\ UNCHANGED <<aux, DB_URI, max_iterations, i, val_result, trace, succeeded_before>>

\* CorrectionLoopAgent, step 2 and the hand-off of step 3.
Loop_Check ==
    /\ pc = "loop_check"
    /\ IF state.execution_result.status = None
       THEN \* None.get("status") raises AttributeError
            /\ pc' = "crashed"
            /\ UNCHANGED <<state, trace>>
       ELSE IF state.execution_result.status = "success"
       THEN /\ state' = [state EXCEPT !.final_sql_query = state.sql_query]
            /\ trace' = trace \o FinalQueryEvents(state.sql_query)
            /\ pc' = "done"
       ELSE /\ trace' = trace \o HandoffEvent(CorrectorName)
            /\ pc' = CorrectorName
            /\ UNCHANGED state
    /\ UNCHANGED <<aux, DB_URI, max_iterations, i, val_result, succeeded_before>>

\* The corrector runs inside the loop body; the for loop then advances.
sql_corrector_agent_run ==
    /\ LlmAgent_run(CorrectorName, "loop_for")
    /\ i' = i + 1
    /\ UNCHANGED <<aux, DB_URI, max_iterations, val_result, succeeded_before>>

\* state.get(key, default) for the report after the loop.
GetOr(v, default) == IF v = Absent THEN default ELSE v

\* CorrectionLoopAgent, the for loop is used up: report.
Loop_Exhausted ==
    /\ pc = "loop_for"
    /\ ~LoopHasNext(i, max_iterations)
    /\ IF state.execution_result.status = None
       THEN /\ pc' = "crashed"
            /\ UNCHANGED trace
       ELSE /\ trace' = Append(trace,
                  Event(LoopName, "max_iterations_reached", state.sql_query,
                        GetOr(state.execution_result.error_message, "Unknown error")))
            /\ pc' = "done"
    /\ UNCHANGED <<aux, DB_URI, max_iterations, state, i, val_result, succeeded_before>>

Next ==
    \/ StartTurn
    \/ SchemaExtractor_run
    \/ sql_generator_agent_run
    \/ Loop_InvokeProcessor
    \/ SQLProcessor_Validate
    \/ SQLProcessor_Execute
    \/ SQLProcessor_Skip
    \/ Loop_Check
    \/ sql_corrector_agent_run
    \/ Loop_Exhausted

Spec == Init /\ [][Next]_vars

\* The process before any turn, for the components modelled on their own.
ComponentInit ==
    /\ PipelineStart({"sqlite"})
    /\ DB_URI = "sakila_master.db"
    /\ max_iterations = MaxIterBound
    /\ CacheIdle /\ EngineIdle /\ ParserIdle /\ UnitIdle

\* The pipeline in a process whose DB_DIALECT may be any configured value.
ConfigurableDialects == SupportedDialects \cup {"mysql"}
DialectInit == PipelineInit(ConfigurableDialects)
DialectSpec == DialectInit /\ [][Next]_vars

(***************************************************************************)
(* Reading the trace of the current turn.                                  *)
(***************************************************************************)
Idx == 1..Len(trace)

SetMax(S) == CHOOSE x \in S : \A y \in S : y <= x

\* Positions of the entries of one kind by one author.
At(author, kind) == {k \in Idx : trace[k].author = author /\ trace[k].kind = kind}

ProcessorHandoffs ==
    {k \in At(LoopName, "invoking_sub_agent") : trace[k].arg = ProcessorName}
CorrectorHandoffs ==
    {k \in At(LoopName, "invoking_sub_agent") : trace[k].arg = CorrectorName}
Validations == At(ProcessorName, "validate")
ValidationEvents == At(ProcessorName, "validation_result")
Connections == At(ProcessorName, "connect")
ExecutionEvents == At(ProcessorName, "execution_result")
CorrectorOutputs == At(CorrectorName, "content")
CandidateOutputs == At(CorrectorName, "content") \cup At(GeneratorName, "content")
FinalQuerySignals == At(LoopName, "content")
ExhaustionSignals == At(LoopName, "max_iterations_reached")
TerminalSignals == FinalQuerySignals \cup ExhaustionSignals

\* The last position of S before k (0 when there is none).
LastBefore(S, k) ==
    IF {j \in S : j < k} = {} THEN 0 ELSE SetMax({j \in S : j < k})

\* The last event (an entry that was yielded) before position k.
PrevEvent(k) == LastBefore({j \in Idx : trace[j].ev}, k)

TurnOver == pc = "done"
Exhausted == TurnOver /\ ExhaustionSignals # {}

(***************************************************************************)
(* C1: every execution attempt (a connection opened by the processor) is   *)
(* immediately preceded by a validation of the same candidate whose        *)
(* status is success, and that candidate is the latest output of the       *)
(* generator or corrector; no candidate is executed before it has been     *)
(* validated with success.                                                 *)
(***************************************************************************)
C1_ExecutionOnlyAfterValidation ==
    \A k \in Connections :
        /\ k > 2
        /\ trace[k - 1] = ValidationEvent(ValidationSuccess)
        /\ trace[k - 2] = Call(ProcessorName, "validate", trace[k].arg)
        /\ LastBefore(CandidateOutputs, k) # 0
        /\ trace[LastBefore(CandidateOutputs, k)].arg = trace[k].arg

\* A candidate written by the corrector has been executed.
C1_Witness ==
    \E k \in Connections :
        /\ LastBefore(CandidateOutputs, k) \in CorrectorOutputs
        /\ pc = "loop_check"

(***************************************************************************)
(* C2: a run of the correction loop performs at most max_iterations        *)
(* processor cycles and then ends: the number of steps of a turn is        *)
(* bounded by the iteration bound, the turn never stops before it is over  *)
(* and never crashes, and it ends with the final query or with the         *)
(* max_iterations_reached report.                                          *)
(***************************************************************************)
C2_BoundedTermination ==
    /\ Cardinality(ProcessorHandoffs) <= max_iterations
    /\ i <= max_iterations
    /\ Len(trace) <= 4 + 7 * max_iterations
    /\ pc # "crashed"
    /\ (pc \notin {"idle", "done"} => ENABLED Next)
    /\ (TurnOver => TerminalSignals # {})

\* A turn that used all its cycles has ended.
C2_Witness ==
    /\ TurnOver
    /\ max_iterations = MaxIterBound
    /\ Cardinality(ProcessorHandoffs) = max_iterations

(***************************************************************************)
(* C3: final_sql_query is non-null if and only if an execution attempt of  *)
(* the turn reported success; it is set once, at the end of the turn, to   *)
(* the candidate that was executed successfully; a turn that ends          *)
(* exhausted leaves it null, also after an earlier successful turn.        *)
(***************************************************************************)
SuccessfulExecutions == {k \in ExecutionEvents : trace[k].arg = "success"}

C3_FinalQueryIffSuccess ==
    /\ (state.final_sql_query # None =>
            /\ TurnOver
            /\ Cardinality(SuccessfulExecutions) = 1
            /\ \A k \in SuccessfulExecutions :
                   /\ k = SetMax(ExecutionEvents)
                   /\ k - 1 \in Connections
                   /\ trace[k - 1].arg = state.final_sql_query)
    /\ (TurnOver => (state.final_sql_query # None <=> SuccessfulExecutions # {}))
    /\ (Exhausted => state.final_sql_query = None)

\* A turn ends exhausted in a session where an earlier turn succeeded.
C3_Witness == Exhausted /\ succeeded_before /\ state.final_sql_query = None

(***************************************************************************)
(* C4: each turn emits exactly one terminal signal, the final-query        *)
(* content event or the max_iterations_reached event, never both and       *)
(* never neither; it is the last entry of the turn, so no sub-agent runs   *)
(* after it.                                                               *)
(***************************************************************************)
C4_ExactlyOneTerminalSignal ==
    /\ Cardinality(TerminalSignals) <= 1
    /\ (TerminalSignals # {} => TurnOver /\ TerminalSignals = {Len(trace)})
    /\ (TurnOver => Cardinality(TerminalSignals) = 1)
    /\ pc # "crashed"

\* A turn has ended with the final-query event after a correction.
C4_Witness == TurnOver /\ FinalQuerySignals # {} /\ CorrectorOutputs # {}

(***************************************************************************)
(* C5: on exhaustion, the last_query of the max_iterations_reached event   *)
(* is the last candidate the loop attempted, i.e. the query validated in   *)
(* the final cycle.                                                        *)
(***************************************************************************)
C5_LastQueryIsLastAttempted ==
    Exhausted =>
        \A k \in ExhaustionSignals :
            Validations # {} => trace[k].arg = trace[SetMax(Validations)].arg

(***************************************************************************)
(* C6: the corrector is invoked only while the iteration count is below    *)
(* max_iterations, so it runs at most max_iterations - 1 times in a turn,  *)
(* and every candidate it produces is validated afterwards.                *)
(***************************************************************************)
C6_CorrectorOnlyBelowMax ==
    /\ Cardinality(CorrectorHandoffs) <= max_iterations - 1
    /\ (TurnOver =>
            \A k \in CorrectorOutputs :
                \E j \in Validations : j > k /\ trace[j].arg = trace[k].arg)

(***************************************************************************)
(* C7: on exhaustion, final_error is the most recent execution error       *)
(* message recorded during the turn, and "Unknown error" only if no        *)
(* execution error was recorded in any cycle of the turn.                  *)
(***************************************************************************)
ExecutionErrors == {k \in ExecutionEvents : trace[k].arg = "error"}

C7_FinalErrorIsLastExecutionError ==
    Exhausted =>
        \A k \in ExhaustionSignals :
            trace[k].arg2 = IF ExecutionErrors = {}
                            THEN "Unknown error"
                            ELSE trace[SetMax(ExecutionErrors)].arg2

(***************************************************************************)
(* C8: on exhaustion, the report carries a concrete error string           *)
(* describing the last failure of the turn, be it a validation failure or  *)
(* an execution failure; never a placeholder or an empty string.           *)
(***************************************************************************)
Failures ==
    {k \in ValidationEvents \cup ExecutionEvents : trace[k].arg = "error"}

C8_ConcreteErrorOnExhaustion ==
    Exhausted =>
        \A k \in ExhaustionSignals :
            /\ trace[k].arg2 \notin {"", "Unknown error"}
            /\ Failures # {}
            /\ trace[k].arg2 = trace[SetMax(Failures)].arg2

(***************************************************************************)
(* C9, the parts of the claim that do not concern the skipped outcome:     *)
(* a validation outcome is emitted before the candidate is executed or     *)
(* handed to the corrector, every sub-agent run is preceded by a hand-off  *)
(* event naming the sub-agent, and a turn that is over ends with a         *)
(* terminal event.                                                         *)
(***************************************************************************)
LoopDecisions == CorrectorHandoffs \cup FinalQuerySignals

AnnouncedTransitions ==
    /\ \A k \in Connections : k - 1 \in ValidationEvents
    /\ \A k \in CorrectorHandoffs :
           LastBefore(ValidationEvents, k) > LastBefore(ProcessorHandoffs, k)
    /\ \A k \in Validations : k - 1 \in ProcessorHandoffs
    /\ \A k \in ValidationEvents \cup ExecutionEvents :
           LastBefore(ProcessorHandoffs, k) > LastBefore(CorrectorHandoffs, k)
    /\ \A k \in CorrectorOutputs : k - 1 \in CorrectorHandoffs
    /\ (TurnOver => Len(trace) \in TerminalSignals)

(***************************************************************************)
(* C9 as claimed: in addition, every cycle's execution outcome, success,   *)
(* error or skipped, is emitted as an event before the loop decides on it. *)
(***************************************************************************)
C9_EveryOutcomeEmitted ==
    /\ AnnouncedTransitions
    /\ \A k \in LoopDecisions : PrevEvent(k) \in ExecutionEvents

(***************************************************************************)
(* C9 as amended: an execution outcome is emitted before the loop decides  *)
(* on it when execution was attempted (success or error); a skipped        *)
(* execution emits no event of its own, the loop's decision then directly  *)
(* follows the validation_result event with status error.  The outcome     *)
(* the loop decides on is the one the last processor event implies.        *)
(***************************************************************************)
C9_EventsAnnounceTransitions ==
    /\ AnnouncedTransitions
    /\ \A k \in FinalQuerySignals :
           PrevEvent(k) \in ExecutionEvents /\ trace[PrevEvent(k)].arg = "success"
    /\ \A k \in CorrectorHandoffs :
           \/ PrevEvent(k) \in ExecutionEvents /\ trace[PrevEvent(k)].arg = "error"
           \/ PrevEvent(k) = k - 1 /\ PrevEvent(k) \in ValidationEvents
                                   /\ trace[PrevEvent(k)].arg = "error"
    /\ (pc = "loop_check" =>
           LET e == trace[PrevEvent(Len(trace) + 1)]
           IN state.execution_result.status =
                  IF e.kind = "execution_result" THEN e.arg ELSE "skipped")

\* The loop has handed a candidate whose execution was skipped to the
\* corrector, and the corrector has answered.
C9_Witness ==
    \E k \in CorrectorHandoffs :
        /\ k - 1 \in ValidationEvents
        /\ k + 1 \in CorrectorOutputs
        /\ ExecutionEvents # {}

(***************************************************************************)
(* C10: whenever validation of the current candidate fails, no database    *)
(* connection is opened in that cycle, and once the processor has run the  *)
(* execution outcome in state is {status: skipped, reason:                 *)
(* validation_failed}.                                                     *)
(***************************************************************************)
FailedValidations == {k \in ValidationEvents : trace[k].arg = "error"}
AllConnections == {k \in Idx : trace[k].kind = "connect"}

C10_SkippedWhenValidationFails ==
    \A k \in FailedValidations :
        /\ \A j \in AllConnections :
               j > k => \E h \in ProcessorHandoffs : k < h /\ h < j
        /\ (k = SetMax(ValidationEvents)
              /\ pc \in {"loop_check", CorrectorName, "loop_for", "done"} =>
                  /\ state.execution_result.status = "skipped"
                  /\ state.execution_result.reason = "validation_failed"
                  /\ state.execution_result.error_message = Absent)

\* Validation fails in a cycle that follows one in which a query was executed.
C10_Witness ==
    /\ pc = "loop_check"
    /\ Connections # {}
    /\ FailedValidations # {}
    /\ SetMax(ValidationEvents) \in FailedValidations


(***************************************************************************)
(* C19: when DB_URI is absent or schema extraction fails, the schema load  *)
(* raises nothing and leaves error markers in schema_ddl and               *)
(* sqlglot_schema; every validation of the turn returns status error       *)
(* without raising, no execution is attempted and the turn ends exhausted, *)
(* not crashed.                                                            *)
(***************************************************************************)
ExtractionAttempts == At(ExtractorName, "connect")
SchemaLoaded == At(ExtractorName, "schema_loaded") # {}

\* The schema load of the current turn had no DB_URI or its extraction raised.
SchemaLoadFailed ==
    /\ SchemaLoaded
    /\ \/ ~Truthy(DB_URI)
       \/ \E k \in ExtractionAttempts : trace[k].arg2 = "raises"

SchemaErrorMarkers ==
    /\ state.schema_ddl = "Error loading schema"
    /\ state.sqlglot_schema = "error"

NoSchemaMessage == "Database schema not available for validation."
NoQueryMessage == "No SQL query found in state to validate."

\* C19 as stated: every validation of such a turn reports the missing schema.
C19_AllValidationsReportMissingSchema ==
    SchemaLoadFailed =>
        \A k \in ValidationEvents :
            trace[k].arg = "error" /\ trace[k].arg2 = NoSchemaMessage

\* C19 (amended): the markers are set; every validation of the turn is an
\* error, reporting the missing schema when a candidate query is present
\* and the missing query when the candidate is empty; nothing is executed;
\* the turn does not crash and ends with the exhaustion signal.
C19_SchemaFailureDegrades ==
    SchemaLoadFailed =>
        /\ SchemaErrorMarkers
        /\ pc # "crashed"
        /\ \A k \in ValidationEvents :
              /\ trace[k].arg = "error"
              /\ trace[k - 1] \in {Call(ProcessorName, "validate", q) :
                                      q \in LLMOutputs \cup {None}}
              /\ trace[k].arg2 = IF Truthy(trace[k - 1].arg)
                                 THEN NoSchemaMessage ELSE NoQueryMessage
        /\ Connections = {}
        /\ ExecutionEvents = {}
        /\ state.execution_result.status \in {None, "skipped"}
        /\ FinalQuerySignals = {}
        /\ TurnOver => Exhausted

\* A turn whose extraction raised has ended exhausted after validations that
\* reported the missing schema.
C19_Witness ==
    /\ Exhausted
    /\ Truthy(DB_URI)
    /\ SchemaLoadFailed
    /\ \E k \in ValidationEvents : trace[k].arg2 = NoSchemaMessage

(***************************************************************************)
(* C20: an unsupported DB_DIALECT is reported as a structured error: the   *)
(* ValueError of the dialect factory does not escape into the pipeline.    *)
(***************************************************************************)
C20_UnsupportedDialectIsReported ==
    DB_DIALECT \notin SupportedDialects => pc # "crashed"



(***************************************************************************)
(* dialects/dialect.py: _parse_ddl_to_sqlglot_schema.                      *)
(*                                                                         *)
(* DDL text is a sequence of pieces of text; ";" and " " (whitespace) are  *)
(* pieces of their own, so that split(";") and strip() act on the text.    *)
(***************************************************************************)
MaxStatements == 3

Semicolon == ";"
Blank == " "

\* Statements, as the text they consist of (without the closing ";").
CreateCustomer == <<"CREATE TABLE \"customer\" (\"id\" INTEGER, \"name\" TEXT)">>
CreateProduct ==
    <<"CREATE TABLE \"product\" (\"value\" REAL, \"note\", \"active\" BOOLEAN)">>
\* A table whose quoted name contains a semicolon.
CreateQuoted == <<"CREATE TABLE \"a", Semicolon, "b\" (\"id\" INTEGER)">>
\* A CREATE TABLE whose second column definition cannot be read.
CreateOrders == <<"CREATE TABLE \"orders\" (\"id\" INTEGER, \"total\" <unreadable>)">>
CreateAsSelect == <<"CREATE TABLE \"copy\" AS SELECT 1">>
CreateIndex == <<"CREATE INDEX \"idx\" ON \"customer\" (\"id\")">>
Garbage == <<"CREATE GARBAGE SYNTAX">>
CommentOnly == <<"-- no statement">>

StatementKinds ==
    {CreateCustomer, CreateProduct, CreateQuoted, CreateOrders,
     CreateAsSelect, CreateIndex, Garbage, CommentOnly}

\* Well-formed CREATE TABLE statements with column definitions, and the
\* table each defines.
WellFormedCreateTables == {CreateCustomer, CreateProduct, CreateQuoted}
TableOf(stmt) ==
    CASE stmt = CreateCustomer -> "customer"
      [] stmt = CreateProduct -> "product"
      [] stmt = CreateQuoted -> "a;b"

\* DDL text as the dialects assemble it: every statement closed by ";",
\* statements separated by blank lines.
RECURSIVE JoinStatements(_)
JoinStatements(stmts) ==
    IF stmts = <<>> THEN <<>>
    ELSE Head(stmts) \o <<Semicolon>>
         \o (IF Len(stmts) > 1 THEN <<Blank>> ELSE <<>>)
         \o JoinStatements(Tail(stmts))

\* ddl_string.split(";")
RECURSIVE SplitOnSemicolon(_, _)
SplitOnSemicolon(text, current) ==
    IF text = <<>> THEN <<current>>
    ELSE IF Head(text) = Semicolon
    THEN <<current>> \o SplitOnSemicolon(Tail(text), <<>>)
    ELSE SplitOnSemicolon(Tail(text), Append(current, Head(text)))

\* s.strip()
RECURSIVE Strip(_)
Strip(chunk) ==
    IF chunk = <<>> THEN <<>>
    ELSE IF Head(chunk) = Blank THEN Strip(Tail(chunk))
    ELSE IF chunk[Len(chunk)] = Blank THEN Strip(SubSeq(chunk, 1, Len(chunk) - 1))
    ELSE chunk

\* [s.strip() for s in ddl_string.split(";") if s.strip()]
StatementsOf(ddl_string) ==
    LET chunks == SplitOnSemicolon(ddl_string, <<>>)
        Kept(k) == Strip(chunks[k]) # <<>>
        RECURSIVE Collect(_)
        Collect(k) ==
            IF k > Len(chunks) THEN <<>>
            ELSE (IF Kept(k) THEN <<Strip(chunks[k])>> ELSE <<>>) \o Collect(k + 1)
    IN Collect(1)

\* A dict is the sequence of its <<key, value>> items, in insertion order.
EmptyDict == <<>>
Keys(dict) == {dict[k][1] : k \in DOMAIN dict}
\* dict[key] = value
Put(dict, key, value) ==
    IF key \in Keys(dict)
    THEN [k \in DOMAIN dict |->
             IF dict[k][1] = key THEN <<key, value>> ELSE dict[k]]
    ELSE Append(dict, <<key, value>>)
Unreadable == "<unreadable>"

ColumnDef(name, kind) == [name |-> name, kind |-> kind]
Expression(is_create, kind, table_name, is_schema, cols) ==
    [raises |-> FALSE, none |-> FALSE, is_create |-> is_create, kind |-> kind,
     table_name |-> table_name, is_schema |-> is_schema, expressions |-> cols]
ParseError == [Expression(FALSE, None, None, FALSE, <<>>) EXCEPT !.raises = TRUE]
NoExpression == [Expression(FALSE, None, None, FALSE, <<>>) EXCEPT !.none = TRUE]

\* sqlglot.parse(statement)[0]: what the library makes of one chunk of text.
\* Text that is no complete statement (such as either half of a statement
\* cut inside a quoted name) raises.
parse(statement) ==
    CASE statement = CreateCustomer ->
            Expression(TRUE, "TABLE", "customer", TRUE,
                       <<ColumnDef("id", "INTEGER"), ColumnDef("name", "TEXT")>>)
      [] statement = CreateProduct ->
            Expression(TRUE, "TABLE", "product", TRUE,
                       <<ColumnDef("value", "REAL"), ColumnDef("note", None),
                         ColumnDef("active", "BOOLEAN")>>)
      [] statement = CreateOrders ->
            Expression(TRUE, "TABLE", "orders", TRUE,
                       <<ColumnDef("id", "INTEGER"), ColumnDef("total", Unreadable)>>)
      [] statement = CreateAsSelect ->
            Expression(TRUE, "TABLE", "copy", FALSE, <<>>)
      [] statement = CreateIndex ->
            Expression(TRUE, "INDEX", "idx", FALSE, <<>>)
      [] statement = CommentOnly -> NoExpression
      [] OTHER -> ParseError

\* col_def.kind.sql(dialect=self.get_sqlglot_dialect()): the type written
\* as the dialect's generator spells it.  The SQLite generator of sqlglot
\* writes BOOLEAN (like the other integer types) as INTEGER and leaves
\* INTEGER, REAL and TEXT as they are.
TypeSQL(kind) ==
    CASE kind = "BOOLEAN" -> "INTEGER"
      [] OTHER -> kind

\* Mutant: a column without a type is recorded without one.
ColumnType_KeepsNone(col_def) ==
    IF col_def.kind # None THEN TypeSQL(col_def.kind) ELSE None

\* The if / else that assigns column_type.
ColumnType(col_def) ==
    IF col_def.kind # None THEN TypeSQL(col_def.kind) ELSE "UNKNOWN"

\* The for loop over schema.expressions: the columns dict, and whether
\* reading a column definition raised.
RECURSIVE ColumnsOf(_, _)
ColumnsOf(col_defs, columns) ==
    IF col_defs = <<>> THEN [raises |-> FALSE, columns |-> columns]
    ELSE LET col_def == Head(col_defs)
             column_type == ColumnType(col_def)
         IN IF col_def.kind = Unreadable
            THEN [raises |-> TRUE, columns |-> columns]
            ELSE ColumnsOf(Tail(col_defs), Put(columns, col_def.name, column_type))

\* One iteration of "for statement in statements": the schema after it.
ParseStatement(sqlglot_schema, statement) ==
    LET create_expr == parse(statement)
    IN IF create_expr.raises \/ create_expr.none THEN sqlglot_schema
       ELSE IF ~(create_expr.is_create /\ create_expr.kind = "TABLE")
       THEN sqlglot_schema
       ELSE IF ~create_expr.is_schema THEN sqlglot_schema
       ELSE LET read == ColumnsOf(create_expr.expressions, EmptyDict)
            IN IF read.raises THEN sqlglot_schema
               ELSE Put(sqlglot_schema, create_expr.table_name, read.columns)

\* The whole function, as the schema cache calls it.
RECURSIVE ParseStatements(_, _)
ParseStatements(sqlglot_schema, statements) ==
    IF statements = <<>> THEN sqlglot_schema
    ELSE ParseStatements(ParseStatement(sqlglot_schema, Head(statements)),
                         Tail(statements))

\* Mutant: an empty DDL string is reported as an error in the schema.
parse_ddl_to_sqlglot_schema_ErrorOnEmpty(ddl_string) ==
    IF ddl_string = <<>> THEN Put(EmptyDict, "error", EmptyDict)
    ELSE ParseStatements(EmptyDict, StatementsOf(ddl_string))

parse_ddl_to_sqlglot_schema(ddl_string) ==
    ParseStatements(EmptyDict, StatementsOf(ddl_string))

RECURSIVE SeqsUpTo(_, _)
SeqsUpTo(S, n) ==
    IF n = 0 THEN {<<>>}
    ELSE LET shorter == SeqsUpTo(S, n - 1)
         IN shorter \cup {Append(q, x) : q \in shorter, x \in S}

ParserInit == ComponentInit /\ concurrent = FALSE

\* The function is called on the text of some statements.
Parser_Begin ==
    /\ parser.pc = "idle"
    /\ \E source \in SeqsUpTo(StatementKinds, MaxStatements) :
         parser' = [pc |-> "loop", source |-> source,
                    ddl_string |-> JoinStatements(source),
                    statements |-> StatementsOf(JoinStatements(source)),
                    sqlglot_schema |-> EmptyDict, result |-> None]
    /\ UNCHANGED <<pipelineVars, cacheVars, engineVars, unitVars>>

Parser_Statement ==
    /\ parser.pc = "loop"
    /\ parser.statements # <<>>
    /\ parser' = [parser EXCEPT
                    !.sqlglot_schema = ParseStatement(@, Head(parser.statements)),
                    !.statements = Tail(@)]
    /\ UNCHANGED <<pipelineVars, cacheVars, engineVars, unitVars>>

Parser_Return ==
    /\ parser.pc = "loop"
    /\ parser.statements = <<>>
    /\ parser' = [parser EXCEPT !.pc = "done", !.result = parser.sqlglot_schema]
    /\ UNCHANGED <<pipelineVars, cacheVars, engineVars, unitVars>>

ParserNext == Parser_Begin \/ Parser_Statement \/ Parser_Return

ParserSpec == ParserInit /\ [][ParserNext]_vars

\* The statements of the text being parsed that are of the given kinds.
SourceIndices(kinds) ==
    {k \in 1..Len(parser.source) : parser.source[k] \in kinds}

DistinctTables ==
    \A j, k \in SourceIndices(WellFormedCreateTables) :
        TableOf(parser.source[j]) = TableOf(parser.source[k]) => j = k

(***************************************************************************)
(* C18: parsing DDL text made of k well-formed CREATE TABLE statements     *)
(* (of distinct tables) and m malformed or other statements yields exactly *)
(* k tables.                                                               *)
(***************************************************************************)
C18_KTablesFromKStatements ==
    (parser.pc = "done" /\ DistinctTables) =>
        Cardinality(Keys(parser.result))
            = Cardinality(SourceIndices(WellFormedCreateTables))



(***************************************************************************)
(* dialects/dialect.py: the schema cache of a DatabaseDialect instance,    *)
(* and dialects/factory.py, which builds the instances.                    *)
(***************************************************************************)
MaxCalls == 3
MaxDialects == 2

URIs == {"sakila_master.db", "other.db"}
Methods == {"ddl", "sqlglot_schema"}

\* What _get_ddl_from_db may return, depending on the database at that time.
ExtractedDDLs ==
    {JoinStatements(<<>>),
     JoinStatements(<<CreateCustomer>>),
     JoinStatements(<<CreateCustomer, CreateProduct>>)}

Get(dict, key) == dict[CHOOSE k \in DOMAIN dict : dict[k][1] = key][2]

\* Mutant: the entry is written with the DDL only.
CacheEntry_DDLOnly(ddl_string, sqlglot_schema) ==
    [keys |-> {"ddl"}, ddl |-> ddl_string, sqlglot_schema |-> EmptyDict]

\* {"ddl": ddl_string, "sqlglot_schema": sqlglot_schema}
CacheEntry(ddl_string, sqlglot_schema) ==
    [keys |-> {"ddl", "sqlglot_schema"}, ddl |-> ddl_string,
     sqlglot_schema |-> sqlglot_schema]

\* Mutant: the accessors never find the entry.
Missing_Always(schema_cache, db_uri, key) == TRUE

\* db_uri not in self._schema_cache or key not in self._schema_cache[db_uri]
Missing(schema_cache, db_uri, key) ==
    \/ db_uri \notin Keys(schema_cache)
    \/ key \notin Get(schema_cache, db_uri).keys

\* The test at the head of _ensure_schema_cached: db_uri in the cache with
\* both keys, which is neither key missing.
FullyCached(schema_cache, db_uri) ==
    /\ ~Missing(schema_cache, db_uri, "ddl")
    /\ ~Missing(schema_cache, db_uri, "sqlglot_schema")

ZeroPerURI == [u \in URIs |-> 0]
NewStats ==
    [accesses |-> ZeroPerURI, extractions |-> ZeroPerURI,
     parses |-> ZeroPerURI,
     populations |-> ZeroPerURI, first |-> EmptyDict]

Instances == 1..Len(dialects)
\* Without concurrency every call is made by the main thread.
MayStep(t) == concurrent \/ t = MainThread

CacheInit(conc) ==
    /\ ComponentInit
    /\ concurrent = conc

\* get_dialect(): SQLiteDialect() / PostgreSQLDialect(), a new object with
\* an empty _schema_cache, on every call.
NewDialect(ds) == Append(ds, EmptyDict)

\* An agent obtains its dialect from the factory.
Cache_GetDialect ==
    /\ Len(dialects) < MaxDialects
    /\ dialects' = NewDialect(dialects)
    /\ stats' = Append(stats, NewStats)
    /\ UNCHANGED <<callers, concurrent, ncalls, pipelineVars, engineVars, parserVars,
                      unitVars>>

\* A thread calls get_ddl or get_sqlglot_schema on an instance.
Cache_Call(t) ==
    /\ callers[t].pc = "idle"
    /\ MayStep(t)
    /\ ncalls < MaxCalls
    /\ \E n \in Instances, db_uri \in URIs, method \in Methods :
         /\ callers' = [callers EXCEPT ![t] =
                [IdleCaller EXCEPT !.pc = "check", !.inst = n, !.uri = db_uri,
                                   !.method = method, !.before = dialects[n]]]
         /\ stats' = [stats EXCEPT ![n].accesses[db_uri] = @ + 1]
    /\ ncalls' = ncalls + 1
    /\ UNCHANGED <<dialects, concurrent, pipelineVars, engineVars, parserVars,
                      unitVars>>

\* The if of get_ddl / get_sqlglot_schema.
Cache_Check(t) ==
    LET c == callers[t]
    IN /\ c.pc = "check"
       /\ MayStep(t)
       /\ callers' = [callers EXCEPT ![t].pc =
              IF Missing(dialects[c.inst], c.uri, c.method)
              THEN "ensure" ELSE "return"]
       /\ UNCHANGED <<dialects, stats, concurrent, ncalls,
                      pipelineVars, engineVars, parserVars,
                      unitVars>>

\* The if of _ensure_schema_cached.
Cache_Ensure(t) ==
    LET c == callers[t]
    IN /\ c.pc = "ensure"
       /\ MayStep(t)
       /\ callers' = [callers EXCEPT ![t].pc =
              IF FullyCached(dialects[c.inst], c.uri) THEN "return" ELSE "extract"]
       /\ UNCHANGED <<dialects, stats, concurrent, ncalls,
                      pipelineVars, engineVars, parserVars,
                      unitVars>>

\* ddl_string = self._get_ddl_from_db(db_uri): returns the DDL of the
\* database as it is now.
Cache_Extract(t) ==
    LET c == callers[t]
    IN /\ c.pc = "extract"
       /\ MayStep(t)
       /\ \E ddl_string \in ExtractedDDLs :
            callers' = [callers EXCEPT ![t].pc = "parse",
                                       ![t].ddl_string = ddl_string]
       /\ stats' = [stats EXCEPT ![c.inst].extractions[c.uri] = @ + 1]
       /\ UNCHANGED <<dialects, concurrent, ncalls,
                      pipelineVars, engineVars, parserVars,
                      unitVars>>

\* _get_ddl_from_db raises: the exception leaves _ensure_schema_cached and
\* the accessor before anything is assigned.
Cache_ExtractRaises(t) ==
    LET c == callers[t]
    IN /\ c.pc = "extract"
       /\ MayStep(t)
       /\ callers' = [callers EXCEPT ![t].pc = "idle", ![t].outcome = "raised"]
       /\ UNCHANGED <<dialects, stats, concurrent, ncalls,
                      pipelineVars, engineVars, parserVars,
                      unitVars>>

\* sqlglot_schema = self._parse_ddl_to_sqlglot_schema(ddl_string)
Cache_Parse(t) ==
    LET c == callers[t]
    IN /\ c.pc = "parse"
       /\ MayStep(t)
       /\ callers' = [callers EXCEPT ![t].pc = "store",
              ![t].sqlglot_schema = parse_ddl_to_sqlglot_schema(c.ddl_string)]
       /\ stats' = [stats EXCEPT ![c.inst].parses[c.uri] = @ + 1]
       /\ UNCHANGED <<dialects, concurrent, ncalls,
                      pipelineVars, engineVars, parserVars,
                      unitVars>>

\* self._schema_cache[db_uri] = {...}
Cache_Store(t) ==
    LET c == callers[t]
        entry == CacheEntry(c.ddl_string, c.sqlglot_schema)
    IN /\ c.pc = "store"
       /\ MayStep(t)
       /\ dialects' = [dialects EXCEPT ![c.inst] = Put(@, c.uri, entry)]
       /\ stats' = [stats EXCEPT
              ![c.inst].populations[c.uri] = @ + 1,
              ![c.inst].first = IF c.uri \in Keys(@) THEN @
                                ELSE Put(@, c.uri, entry)]
       /\ callers' = [callers EXCEPT ![t].pc = "return"]
       /\ UNCHANGED <<concurrent, ncalls, pipelineVars, engineVars, parserVars,
                      unitVars>>

\* return self._schema_cache[db_uri][key]
Cache_Return(t) ==
    LET c == callers[t]
        entry == Get(dialects[c.inst], c.uri)
    IN /\ c.pc = "return"
       /\ MayStep(t)
       /\ callers' = [callers EXCEPT ![t].pc = "idle",
              ![t].outcome = IF c.method \in entry.keys THEN "returned" ELSE "raised",
              ![t].ddl = IF c.method = "ddl" THEN entry.ddl ELSE <<>>,
              ![t].schema = IF c.method = "sqlglot_schema"
                            THEN entry.sqlglot_schema ELSE <<>>]
       /\ UNCHANGED <<dialects, stats, concurrent, ncalls,
                      pipelineVars, engineVars, parserVars,
                      unitVars>>

CacheNext ==
    \/ Cache_GetDialect
    \/ \E t \in Threads :
         \/ Cache_Call(t)
         \/ Cache_Check(t)
         \/ Cache_Ensure(t)
         \/ Cache_Extract(t)
         \/ Cache_ExtractRaises(t)
         \/ Cache_Parse(t)
         \/ Cache_Store(t)
         \/ Cache_Return(t)

\* Calls one after the other, as within a turn and between turns that do
\* not overlap.
CacheSpec == CacheInit(FALSE) /\ [][CacheNext]_vars

\* Calls of two threads that may overlap.
ConcCacheSpec == CacheInit(TRUE) /\ [][CacheNext]_vars



\* The calls that have returned a value, by instance and URI.
Returned(n, db_uri) ==
    {t \in Threads : /\ callers[t].pc = "idle"
                     /\ callers[t].outcome = "returned"
                     /\ callers[t].inst = n
                     /\ callers[t].uri = db_uri}

\* What a returned call got is what the given entry holds.
ReturnedFrom(t, entry) ==
    /\ callers[t].method = "ddl" => callers[t].ddl = entry.ddl
    /\ callers[t].method = "sqlglot_schema" =>
           callers[t].schema = entry.sqlglot_schema

FailedPopulations ==
    {t \in Threads : callers[t].pc = "idle" /\ callers[t].outcome = "raised"}

C12_EntriesCompleteAndConsistent ==
    /\ \A n \in Instances : \A db_uri \in Keys(dialects[n]) :
          LET entry == Get(dialects[n], db_uri)
          IN /\ entry.keys = {"ddl", "sqlglot_schema"}
             /\ entry.sqlglot_schema = parse_ddl_to_sqlglot_schema(entry.ddl)
    /\ \A t \in FailedPopulations :
          /\ callers[t].uri \notin Keys(dialects[callers[t].inst])
          /\ dialects[callers[t].inst] = callers[t].before

\* A population has failed on an instance that holds an entry for the other
\* URI.
C12_Witness ==
    \E t \in FailedPopulations :
        /\ Keys(dialects[callers[t].inst]) # {}
        /\ stats[callers[t].inst].accesses[callers[t].uri] > 1

(***************************************************************************)
(* C13: the process has one dialect instance, so one schema cache, and a   *)
(* URI is extracted at most once in the life of the process.               *)
(***************************************************************************)
C13_OneInstancePerProcess ==
    /\ Len(dialects) <= 1
    /\ \A db_uri \in URIs : \A n1, n2 \in Instances :
          (stats[n1].extractions[db_uri] > 0 /\ stats[n2].extractions[db_uri] > 0)
              => n1 = n2



(***************************************************************************)
(* C14: when calls of two threads on a shared cache overlap, a URI is      *)
(* populated at most once and the calls that return for it return the      *)
(* values of one entry.                                                    *)
(***************************************************************************)
C14_AtMostOnePopulation ==
    \A n \in Instances, db_uri \in URIs :
        /\ stats[n].populations[db_uri] <= 1
        /\ \A t \in Returned(n, db_uri) :
              ReturnedFrom(t, Get(stats[n].first, db_uri))



(***************************************************************************)
(* engine.py, step by step: SQLValidator.validate and SQLExecutor.execute  *)
(* against the libraries they call (sqlglot, the database driver).         *)
(***************************************************************************)
MaxEngineCalls == 3

QSyntax == "SELEC name FROM customer;"
QName == "SELECT name FROM customer;"
ValidatorQueries == {QSyntax, QUnresolved, QName, QOk}
ExecutorQueries == {QOk, QNoTable, QSilent}

\* The schemas validate is given: the parsed DDL of the database.
ValidatorSchemas == {parse_ddl_to_sqlglot_schema(ddl) : ddl \in ExtractedDDLs}

\* parse_one accepts the query.
WellFormedSQL(sql_query) == sql_query # QSyntax

TablesReferenced(sql_query) ==
    IF sql_query \in {QSyntax, QUnresolved, QName, QOk} THEN {"customer"}
    ELSE IF sql_query = QNoTable THEN {"orders"}
    ELSE {}

ColumnsReferenced(sql_query) ==
    CASE sql_query = QUnresolved -> {"last_name"}
      [] sql_query \in {QSyntax, QName} -> {"name"}
      [] sql_query = QNoTable -> {"id"}
      [] OTHER -> {}

\* The columns the query references that no table it references has.
AbsentColumns(sql_query, schema) ==
    {c \in ColumnsReferenced(sql_query) :
        \A t \in TablesReferenced(sql_query) \cap Keys(schema) :
            c \notin Keys(Get(schema, t))}

\* Mutant: qualification succeeds whatever the columns.
Qualifies_Always(sql_query, schema) == TRUE

\* sqlglot_optimize(..., validate_qualify_columns=True) does not raise.
Qualifies(sql_query, schema) == AbsentColumns(sql_query, schema) = {}

ResolutionMessage == "Column 'last_name' could not be resolved"
SyntaxMessage == "Invalid expression / Unexpected token"

Exception(class, message) == [class |-> class, message |-> message]
ExceptionClasses == {"ParseError", "OptimizeError", "OperationalError",
                     "ProgrammingError"}

\* Mutant: the handler catches parse errors only.
Caught_ParseErrorOnly(exc) == exc.class = "ParseError"

\* except Exception: every error of sqlglot and of the drivers is one.
Caught(exc) == exc.class \in ExceptionClasses

\* What the driver may return from fetchall.
RowSets == {<<>>, <<"row1">>, <<"row1", "row2">>}
ConnectFailure == Exception("OperationalError", "unable to open database file")
FetchFailure == Exception("ProgrammingError", "no results to fetch")

\* Connection.__exit__ of sqlite3 and psycopg2: commits or rolls back, and
\* leaves the connection as it is.
ContextExit(status) == status

EngineInit == ComponentInit /\ concurrent = FALSE

EngineUnchanged == UNCHANGED <<pipelineVars, cacheVars, parserVars, unitVars>>

Engine_CallValidate ==
    /\ engine.pc = "idle"
    /\ engine.calls < MaxEngineCalls
    /\ \E sql_query \in ValidatorQueries, schema \in ValidatorSchemas :
         engine' = [IdleEngine EXCEPT !.pc = "parse", !.op = "validate",
                       !.sql_query = sql_query, !.schema = schema,
                       !.calls = engine.calls + 1]
    /\ UNCHANGED conns
    /\ EngineUnchanged

\* expression = parse_one(sql_query, read=sqlglot_dialect)
Engine_Parse ==
    /\ engine.pc = "parse"
    /\ engine' = IF WellFormedSQL(engine.sql_query)
                 THEN [engine EXCEPT !.pc = "schema_obj",
                                     !.phases = Append(@, "parse")]
                 ELSE [engine EXCEPT !.pc = "except",
                          !.phases = Append(@, "parse"), !.failed_at = "parse",
                          !.exc = Exception("ParseError", SyntaxMessage)]
    /\ UNCHANGED conns
    /\ EngineUnchanged

\* schema_obj = MappingSchema(sqlglot_schema_dict, dialect=sqlglot_dialect)
Engine_BuildSchema ==
    /\ engine.pc = "schema_obj"
    /\ engine' = [engine EXCEPT !.pc = "optimize", !.phases = Append(@, "schema_obj")]
    /\ UNCHANGED conns
    /\ EngineUnchanged

\* sqlglot_optimize(...); return {"status": "success"}
Engine_Optimize ==
    /\ engine.pc = "optimize"
    /\ engine' = IF Qualifies(engine.sql_query, engine.schema)
                 THEN [engine EXCEPT !.pc = "idle", !.returned = TRUE,
                          !.phases = Append(@, "optimize"),
                          !.status = ValidationSuccess.status,
                          !.errors = ValidationSuccess.errors]
                 ELSE [engine EXCEPT !.pc = "except",
                          !.phases = Append(@, "optimize"), !.failed_at = "optimize",
                          !.exc = Exception("OptimizeError", ResolutionMessage)]
    /\ UNCHANGED conns
    /\ EngineUnchanged

Engine_CallExecute ==
    /\ engine.pc = "idle"
    /\ engine.calls < MaxEngineCalls
    /\ \E sql_query \in ExecutorQueries :
         engine' = [IdleEngine EXCEPT !.pc = "connect", !.op = "execute",
                       !.sql_query = sql_query, !.calls = engine.calls + 1]
    /\ UNCHANGED conns
    /\ EngineUnchanged

\* self.dialect.get_connection(self.db_uri) and __enter__
Engine_Connect ==
    /\ engine.pc = "connect"
    /\ \/ /\ conns' = Append(conns, "open")
          /\ engine' = [engine EXCEPT !.pc = "cursor_execute",
                                      !.conn = Len(conns) + 1]
       \/ /\ engine' = [engine EXCEPT !.pc = "except", !.failed_at = "connect",
                                      !.exc = ConnectFailure]
          /\ UNCHANGED conns
    /\ EngineUnchanged

\* cursor = conn.cursor(); cursor.execute(sql_query)
Engine_CursorExecute ==
    /\ engine.pc = "cursor_execute"
    /\ LET r == SQLExecutor_execute(engine.sql_query)
       IN engine' = IF r.error = None
                    THEN [engine EXCEPT !.pc = "fetchall"]
                    ELSE [engine EXCEPT !.pc = "exit", !.failed_at = "execute",
                             !.exc = Exception("OperationalError", r.error)]
    /\ UNCHANGED conns
    /\ EngineUnchanged

\* result = cursor.fetchall()
Engine_Fetch ==
    /\ engine.pc = "fetchall"
    /\ \/ \E result \in RowSets :
            engine' = [engine EXCEPT !.pc = "exit", !.fetched = result]
       \/ engine' = [engine EXCEPT !.pc = "exit", !.failed_at = "fetch",
                                   !.exc = FetchFailure]
    /\ UNCHANGED conns
    /\ EngineUnchanged

\* Leaving the with block: __exit__, then "return result, None" or the
\* except clause.
Engine_Exit ==
    /\ engine.pc = "exit"
    /\ conns' = [conns EXCEPT ![engine.conn] = ContextExit(@)]
    /\ engine' = IF engine.exc = NoException
                 THEN [engine EXCEPT !.pc = "idle", !.returned = TRUE,
                          !.rows = Some(engine.fetched), !.error = Nothing]
                 ELSE [engine EXCEPT !.pc = "except"]
    /\ EngineUnchanged

\* except Exception as e: the error value of validate / execute.
Engine_Except ==
    /\ engine.pc = "except"
    /\ engine' =
         IF ~Caught(engine.exc)
         THEN [engine EXCEPT !.pc = "idle", !.escaped = TRUE]
         ELSE IF engine.op = "validate"
         THEN [engine EXCEPT !.pc = "idle", !.returned = TRUE,
                  !.status = ValidationError(<<engine.exc.message>>).status,
                  !.errors = ValidationError(<<engine.exc.message>>).errors]
         ELSE [engine EXCEPT !.pc = "idle", !.returned = TRUE,
                  !.rows = Nothing, !.error = Some(engine.exc.message)]
    /\ UNCHANGED conns
    /\ EngineUnchanged

EngineNext ==
    \/ Engine_CallValidate
    \/ Engine_Parse
    \/ Engine_BuildSchema
    \/ Engine_Optimize
    \/ Engine_CallExecute
    \/ Engine_Connect
    \/ Engine_CursorExecute
    \/ Engine_Fetch
    \/ Engine_Exit
    \/ Engine_Except

EngineSpec == EngineInit /\ [][EngineNext]_vars

ExecuteOver == engine.op = "execute" /\ engine.pc = "idle"
ValidateOver == engine.op = "validate" /\ engine.pc = "idle"

(***************************************************************************)
(* C15: when execute has returned control, every connection it acquired    *)
(* is closed.                                                              *)
(***************************************************************************)
C15_ConnectionsReleased ==
    engine.pc = "idle" => \A k \in 1..Len(conns) : conns[k] = "closed"

(***************************************************************************)
(* C16: execute never raises and returns exactly one of rows and error:    *)
(* the rows fetched when connect, execute and fetch all succeed, and       *)
(* otherwise no rows and the message of the failure.                       *)
(***************************************************************************)
C16_RowsOrError ==
    ExecuteOver =>
        /\ ~engine.escaped
        /\ engine.returned
        /\ (engine.rows = Nothing) # (engine.error = Nothing)
        /\ engine.failed_at = None =>
              /\ engine.rows = Some(engine.fetched)
              /\ SQLExecutor_execute(engine.sql_query).error = None
        /\ engine.failed_at \in {"connect", "execute", "fetch"} =>
              /\ engine.rows = Nothing
              /\ engine.error = Some(engine.exc.message)
        /\ engine.failed_at = "execute" =>
              engine.error = Some(SQLExecutor_execute(engine.sql_query).error)

\* A call whose fetch failed has returned.
C16_Witness ==
    /\ ExecuteOver
    /\ engine.failed_at = "fetch"
    /\ engine.error = Some(FetchFailure.message)

(***************************************************************************)
(* C17: validate never raises; it returns success exactly when the query   *)
(* parses and every column it references is in the schema; a query that    *)
(* does not parse returns an error from the parse phase, before any        *)
(* semantic check; a query referencing an absent column returns an error   *)
(* saying the column could not be resolved.                                *)
(***************************************************************************)
C17_SuccessOnlyIfParsedAndResolved ==
    ValidateOver =>
        LET absent == AbsentColumns(engine.sql_query, engine.schema)
        IN /\ ~engine.escaped
           /\ engine.returned
           /\ engine.status \in {"success", "error"}
           /\ engine.status = "success" <=>
                 (engine.sql_query # QSyntax /\ absent = {})
           /\ engine.sql_query = QSyntax =>
                 /\ engine.phases = <<"parse">>
                 /\ engine.errors = <<SyntaxMessage>>
           /\ (engine.sql_query # QSyntax /\ absent # {}) =>
                 /\ engine.phases = <<"parse", "schema_obj", "optimize">>
                 /\ engine.errors = <<ResolutionMessage>>
           /\ engine.sql_query \in LLMOutputs =>
                 /\ engine.status = SQLValidator_validate(engine.sql_query).status
                 /\ engine.errors = SQLValidator_validate(engine.sql_query).errors

\* Of the calls made, the last is a validation that failed in resolution.
C17_Witness ==
    /\ ValidateOver
    /\ engine.calls = MaxEngineCalls
    /\ engine.sql_query = QUnresolved
    /\ engine.status = "error"
    /\ engine.errors = <<ResolutionMessage>>



(***************************************************************************)
(* C21: in every turn the schema_loaded signal is emitted, with schema_ddl *)
(* written to the shared state, before the first candidate is generated    *)
(* and before the first validation of the turn.                            *)
(***************************************************************************)
SchemaLoadedSignals == At(ExtractorName, "schema_loaded")

\* What the schema load of the turn wrote to schema_ddl.
LoadedDDLs ==
    IF ~Truthy(DB_URI) THEN {"Error loading schema"}
    ELSE {CASE trace[k].arg2 = "tables" -> "ddl"
            [] trace[k].arg2 = "empty" -> ""
            [] OTHER -> "Error loading schema" : k \in ExtractionAttempts}

C21_SchemaLoadedFirst ==
    pc \notin {"idle", ExtractorName} =>
        /\ Cardinality(SchemaLoadedSignals) = 1
        /\ LoadedDDLs = {state.schema_ddl}
        /\ \A k \in SchemaLoadedSignals :
              \A j \in CandidateOutputs \cup Validations \cup ValidationEvents :
                 k < j

\* A turn has ended with candidates generated and validated after the schema
\* was loaded from the database.
C21_Witness ==
    /\ TurnOver
    /\ state.schema_ddl = "ddl"
    /\ SchemaLoadedSignals # {}
    /\ ValidationEvents # {}
    /\ CorrectorOutputs # {}


(***************************************************************************)
(* callbacks.py on its own.  A text is the sequence of its pieces, with    *)
(* whitespace (Blank) a piece of its own; Nothing is None.                 *)
(***************************************************************************)
MaxParts == 2

\* part.text of the parts of a Content: None, "", or a text.
PartTexts == {Nothing, Some(<<>>), Some(<<"Hello">>), Some(<<"world">>)}

\* callback_context.user_content: None, or a Content with its parts.
UserContents == {Nothing} \cup {Some(parts) : parts \in SeqsUpTo(PartTexts, MaxParts)}

\* if part.text
HasText(text) == text # Nothing /\ text[1] # <<>>

\* " ".join(part.text for part in user_content.parts if part.text)
RECURSIVE JoinTexts(_)
JoinTexts(parts) ==
    IF parts = <<>> THEN <<>>
    ELSE IF ~HasText(Head(parts)) THEN JoinTexts(Tail(parts))
    ELSE LET rest == JoinTexts(Tail(parts))
         IN IF rest = <<>> THEN Head(parts)[1]
            ELSE Head(parts)[1] \o <<Blank>> \o rest

\* Mutant: the message is overwritten also when there is no content.
CapturedMessage_Always(message, user_content) ==
    IF user_content # Nothing THEN Some(JoinTexts(user_content[1]))
    ELSE Some(<<>>)

\* state["message"] after capture_user_message.
CapturedMessage(message, user_content) ==
    IF user_content # Nothing /\ user_content[1] # <<>>
    THEN Some(JoinTexts(user_content[1]))
    ELSE message

\* The state a turn may start from: a new session, or what an earlier turn
\* left.
EarlierStates ==
    {InitState,
     [sql_query |-> QOk, validation_result |-> ValidationSuccess,
      execution_result |-> ExecutionSuccess("rows"), final_sql_query |-> QOk,
      schema_ddl |-> "ddl", sqlglot_schema |-> "tables"],
     [sql_query |-> QNoTable, validation_result |-> ValidationSuccess,
      execution_result |-> ExecutionError("no such table: orders"),
      final_sql_query |-> None, schema_ddl |-> "ddl", sqlglot_schema |-> "tables"]}
EarlierMessages == {Nothing, Some(<<"old_message">>)}

CallbackInit == ComponentInit /\ concurrent = FALSE

UnitUnchanged == UNCHANGED <<pipelineVars, cacheVars, engineVars, parserVars>>

\* before_agent_callback of the root agent.
Callback_Capture ==
    /\ unit = IdleUnit
    /\ \E st \in EarlierStates, message \in EarlierMessages,
          user_content \in UserContents :
         unit' = [fn |-> "capture_user_message", state_in |-> st,
                  message_in |-> message, user_content |-> user_content,
                  state |-> capture_user_message(st),
                  message |-> CapturedMessage(message, user_content)]
    /\ UnitUnchanged

(***************************************************************************)
(* C22: capture_user_message sets sql_query, validation_result,            *)
(* execution_result and final_sql_query to None whatever the user content; *)
(* it sets message to the space-joined texts of the parts when the content *)
(* has parts and leaves message as it was otherwise.                       *)
(***************************************************************************)
Captured == unit.fn = "capture_user_message"

C22_CaptureResetsAndSetsMessage ==
    Captured =>
        /\ unit.state.sql_query = None
        /\ unit.state.validation_result = NoResult
        /\ unit.state.execution_result = NoResult
        /\ unit.state.final_sql_query = None
        /\ unit.state.schema_ddl = unit.state_in.schema_ddl
        /\ unit.state.sqlglot_schema = unit.state_in.sqlglot_schema
        /\ (unit.user_content = Nothing \/ unit.user_content = Some(<<>>)) =>
              unit.message = unit.message_in
        /\ (unit.user_content # Nothing /\ unit.user_content # Some(<<>>)) =>
              unit.message = Some(JoinTexts(unit.user_content[1]))
        /\ unit.user_content = Some(<<Some(<<"Hello">>), Some(<<"world">>)>>) =>
              unit.message = Some(<<"Hello", Blank, "world">>)
        /\ unit.user_content = Some(<<Nothing, Some(<<"world">>)>>) =>
              unit.message = Some(<<"world">>)

\* The callback has run on the state of an earlier turn with a content
\* without parts.
C22_Witness ==
    /\ Captured
    /\ unit.state_in.final_sql_query = QOk
    /\ unit.user_content = Some(<<>>)
    /\ unit.message = Some(<<"old_message">>)


\* clean_sql_query: the texts an LLM answers with are made of these pieces.
MaxTextLen == 4
\* The three backquotes of a markdown code fence, with or without "sql".
Fence == "<fence>"
UpperWords == {"SELECT"}
LowerWords == {"select", "film"}
TextPieces == {Fence, Blank, Semicolon} \cup UpperWords \cup LowerWords
Texts == SeqsUpTo(TextPieces, MaxTextLen)

\* llm_response: without content, with content without parts, or with a
\* first part whose text is None or a text.
LlmResponses ==
    {[content |-> FALSE, parts |-> FALSE, text |-> Nothing],
     [content |-> TRUE, parts |-> FALSE, text |-> Nothing],
     [content |-> TRUE, parts |-> TRUE, text |-> Nothing]}
    \cup {[content |-> TRUE, parts |-> TRUE, text |-> Some(t)] : t \in Texts}

FenceIndices(text) == {k \in 1..Len(text) : text[k] = Fence}
SetMin(S) == CHOOSE x \in S : \A y \in S : x <= y

\* re.search(<fence, whitespace, group 1, whitespace, fence>, raw_text):
\* whether there is a fenced block, and its group(1).
HasCodeBlock(raw_text) == Cardinality(FenceIndices(raw_text)) >= 2
CodeBlock(raw_text) ==
    LET open == SetMin(FenceIndices(raw_text))
        close == SetMin(FenceIndices(raw_text) \ {open})
    IN Strip(SubSeq(raw_text, open + 1, close - 1))

\* words = cleaned_query.split(); words[0]: the pieces up to the first
\* whitespace.
RECURSIVE FirstWord(_)
FirstWord(text) ==
    IF text = <<>> \/ Head(text) = Blank THEN <<>>
    ELSE <<Head(text)>> \o FirstWord(Tail(text))

\* str.isupper(): some cased character, none of them lower case.
IsUpper(word) ==
    /\ \E k \in 1..Len(word) : word[k] \in UpperWords
    /\ \A k \in 1..Len(word) : word[k] \notin LowerWords

\* The text clean_sql_query computes from a non-empty raw_text.
CleanedQuery(raw_text) ==
    LET query_text == IF HasCodeBlock(raw_text) THEN CodeBlock(raw_text)
                      ELSE raw_text
        cleaned_query == Strip(query_text)
    IN IF /\ cleaned_query # <<>>
          /\ IsUpper(FirstWord(cleaned_query))
          /\ cleaned_query[Len(cleaned_query)] # Semicolon
       THEN Append(cleaned_query, Semicolon)
       ELSE cleaned_query

\* The response after clean_sql_query.
clean_sql_query(llm_response) ==
    IF ~llm_response.content \/ ~llm_response.parts THEN llm_response
    ELSE IF ~HasText(llm_response.text) THEN llm_response
    ELSE [llm_response EXCEPT !.text = Some(CleanedQuery(llm_response.text[1]))]

\* after_model_callback of the generator and the corrector.
Callback_Clean ==
    /\ unit = IdleUnit
    /\ \E llm_response \in LlmResponses :
         unit' = [fn |-> "clean_sql_query", llm_response |-> llm_response,
                  cleaned |-> clean_sql_query(llm_response)]
    /\ UnitUnchanged

CallbackNext == Callback_Capture \/ Callback_Clean

CallbackSpec == CallbackInit /\ [][CallbackNext]_vars

(***************************************************************************)
(* C23: clean_sql_query leaves a response without content, parts or text   *)
(* unchanged, and rewrites a response with text to the text inside the     *)
(* code fence when there is one (otherwise the whole text), stripped and   *)
(* ending with exactly one semicolon.                                      *)
(***************************************************************************)
Cleaned == unit.fn = "clean_sql_query"

RECURSIVE WithoutTrailingSemicolons(_)
WithoutTrailingSemicolons(text) ==
    IF text # <<>> /\ text[Len(text)] \in {Semicolon, Blank}
    THEN WithoutTrailingSemicolons(SubSeq(text, 1, Len(text) - 1))
    ELSE text

\* The query the claim describes for a raw text.
OneSemicolon(raw_text) ==
    LET query_text == IF HasCodeBlock(raw_text) THEN CodeBlock(raw_text)
                      ELSE raw_text
    IN Append(WithoutTrailingSemicolons(Strip(query_text)), Semicolon)

\* The raw text holds a query: a word remains once the semicolons are put
\* aside.
HoldsQuery(raw_text) ==
    \E k \in 1..Len(OneSemicolon(raw_text)) :
        OneSemicolon(raw_text)[k] \in UpperWords \cup LowerWords

C23_CleanEndsWithOneSemicolon ==
    Cleaned =>
        /\ ~HasText(unit.llm_response.text) => unit.cleaned = unit.llm_response
        /\ (HasText(unit.llm_response.text)
              /\ HoldsQuery(unit.llm_response.text[1])) =>
              unit.cleaned.text = Some(OneSemicolon(unit.llm_response.text[1]))


(***************************************************************************)
(* Failed executions and the recorded execution result.                    *)
(***************************************************************************)
\* The connections of the turn whose SQLExecutor.execute caught a failure.
FailedExecutions ==
    {k \in Connections : SQLExecutor_execute(trace[k].arg).error # None}

\* C24: whenever SQLExecutor.execute catches a failure, whatever its message
\* (the empty message included), run_sql_execution records status error, so
\* the loop does not end the turn with a final query on a failed execution.
C24_FailureRecordedAsError ==
    \A k \in FailedExecutions :
        /\ k + 1 \in ExecutionEvents
        /\ trace[k + 1].arg = "error"
        /\ \A j \in FinalQuerySignals : trace[j].arg # trace[k].arg

(***************************************************************************)
(* The validation result the state holds after run_sql_validation.         *)
(***************************************************************************)
\* C25: after every run_sql_validation call state.validation_result is the
\* result that call returned, on each of its return paths (missing query,
\* schema unavailable, validator verdict).
C25_StateHoldsReturnedValidation ==
    pc = "processor_branch" => state.validation_result = val_result


(***************************************************************************)
(* The execution result the loop tests.                                    *)
(***************************************************************************)
\* What run_sql_execution makes of the candidate q when it reaches the
\* executor.
OutcomeOf(q) ==
    IF Truthy(SQLExecutor_execute(q).error)
    THEN ExecutionError(SQLExecutor_execute(q).error)
    ELSE ExecutionSuccess(SQLExecutor_execute(q).rows)

\* C26: when SQLProcessor has run, state.execution_result is the outcome of
\* that run: the result of executing the current candidate when its
\* validation passed, and the skip otherwise.  It is never null and never the
\* result of an earlier cycle or turn, so the loop's success test is made on
\* the current candidate.
C26_ExecutionResultIsCurrent ==
    pc = "loop_check" =>
        /\ state.execution_result.status \in {"success", "error", "skipped"}
        /\ state.execution_result =
               IF val_result.status = "success"
               THEN OutcomeOf(state.sql_query)
               ELSE ExecutionSkipped

\* A later cycle skips execution after an earlier cycle of the turn recorded
\* an execution error: the error is replaced by the skip.
C26_Witness ==
    /\ pc = "loop_check"
    /\ i >= 1
    /\ val_result.status # "success"
    /\ state.execution_result = ExecutionSkipped
    /\ \E k \in ExecutionEvents : trace[k].arg = "error"


(***************************************************************************)
(* run_sql_execution on its own: one call, from any state and any value    *)
(* of the module constant DB_URI.                                          *)
(***************************************************************************)
\* Values of tools.DB_URI: unset, empty, set.
ToolURIs == {None, "", "sakila_master.db"}

\* States the tool can be called in: the query missing, empty or present, and
\* validation and execution results of an earlier call or none.
ToolStates ==
    {[InitState EXCEPT !.sql_query = q, !.validation_result = vr,
                       !.execution_result = er] :
        q \in {None} \cup LLMOutputs,
        vr \in {NoResult, ValidationSuccess},
        er \in {NoResult, ExecutionSkipped, ExecutionSuccess("rows"),
                ExecutionError("no such table: orders")}}

ToolInit == ComponentInit /\ concurrent = FALSE

Tool_Execute ==
    /\ unit = IdleUnit
    /\ \E st \in ToolStates, uri \in ToolURIs :
         unit' = [fn |-> "run_sql_execution", state_in |-> st, uri |-> uri,
                  connects |-> ExecutionConnects(st, uri),
                  result |-> run_sql_execution(st, uri),
                  state |-> StateAfterExecution(st, uri)]
    /\ UnitUnchanged

ToolNext == Tool_Execute

ToolSpec == ToolInit /\ [][ToolNext]_vars

Executed == unit.fn = "run_sql_execution"

\* C27: with DB_URI not set run_sql_execution returns status error with the
\* message 'DB_URI not set.', opens no connection and leaves the state as it
\* was; with DB_URI set and the query missing it returns status error and
\* writes that result to state.execution_result.
C27_ExecutionEarlyReturns ==
    Executed =>
        /\ unit.uri \in {None, ""} =>
              /\ unit.result = [NoResult EXCEPT !.status = "error",
                                    !.error_message = "DB_URI not set."]
              /\ ~unit.connects
              /\ unit.state = unit.state_in
        /\ (unit.uri \notin {None, ""} /\ unit.state_in.sql_query \in {None, ""}) =>
              /\ unit.result.status = "error"
              /\ ~unit.connects
              /\ unit.state = [unit.state_in EXCEPT !.execution_result = unit.result]

\* DB_URI is not set, a query is present and the state holds the result of
\* an earlier execution.
C27_Witness ==
    /\ Executed
    /\ unit.uri = None
    /\ unit.state_in.sql_query = QOk
    /\ unit.state_in.execution_result = ExecutionSuccess("rows")


(***************************************************************************)
(* C28: for a database without user tables the extraction returns the      *)
(* empty string and its parse is the empty schema, without error; the      *)
(* entry made of the two counts as populated: later get_ddl and            *)
(* get_sqlglot_schema calls for the URI extract nothing more and return    *)
(* the empty string and the empty schema.                                  *)
(***************************************************************************)
\* The URIs of instance n whose entry holds the empty DDL string.
EmptyDatabases(n) ==
    {db_uri \in Keys(dialects[n]) : Get(dialects[n], db_uri).ddl = <<>>}

C28_EmptyDatabaseIsCached ==
    \A n \in Instances : \A db_uri \in EmptyDatabases(n) :
        /\ Get(dialects[n], db_uri).keys = {"ddl", "sqlglot_schema"}
        /\ Get(dialects[n], db_uri).sqlglot_schema = <<>>
        /\ stats[n].extractions[db_uri] = 1
        /\ stats[n].parses[db_uri] = 1
        /\ \A t \in Returned(n, db_uri) :
              /\ callers[t].method = "ddl" => callers[t].ddl = <<>>
              /\ callers[t].method = "sqlglot_schema" => callers[t].schema = <<>>

\* Every call of the run went to one URI whose database has no tables, and
\* the last of them has returned.
C28_Witness ==
    \E n \in Instances : \E db_uri \in EmptyDatabases(n) :
        /\ stats[n].accesses[db_uri] = MaxCalls
        /\ Returned(n, db_uri) # {}


(***************************************************************************)
(* Columns without a type.                                                 *)
(***************************************************************************)
\* The CREATE TABLE statements of the text whose columns can all be read
\* and which the split on ";" leaves whole.
ReadableCreateTables == {CreateCustomer, CreateProduct}

\* The columns the statement declares, in declaration order: name and
\* declared type, None where the definition has no type.
DeclaredColumns(stmt) ==
    CASE stmt = CreateCustomer -> <<<<"id", "INTEGER">>, <<"name", "TEXT">>>>
      [] stmt = CreateProduct ->
            <<<<"value", "REAL">>, <<"note", None>>, <<"active", "BOOLEAN">>>>

\* The declared type as the SQLite dialect of the parser writes it.
WrittenType(declared) == IF declared = "BOOLEAN" THEN "INTEGER" ELSE declared

MaxTypeLen == 2

\* A native type string is a sequence of pieces: the fragments the
\* classifiers look for, the rest of "float" and "double", a blank and a
\* letter that belongs to none of them, each in lower and in upper case.
TypeWords ==
    <<"int", "bool", "char", "clob", "text", "real", "floa", "doub",
      "numeric", "decimal", "timestamp", "date", "t", "le", "x">>
TypeWordsUpper ==
    <<"INT", "BOOL", "CHAR", "CLOB", "TEXT", "REAL", "FLOA", "DOUB",
      "NUMERIC", "DECIMAL", "TIMESTAMP", "DATE", "T", "LE", "X">>
TypePieces ==
    {TypeWords[k] : k \in DOMAIN TypeWords}
        \cup {TypeWordsUpper[k] : k \in DOMAIN TypeWordsUpper} \cup {Blank}
NativeTypes == SeqsUpTo(TypePieces, MaxTypeLen)

\* str.lower() of a native type string.
LowerPiece(piece) ==
    IF \E k \in DOMAIN TypeWordsUpper : TypeWordsUpper[k] = piece
    THEN TypeWords[CHOOSE k \in DOMAIN TypeWordsUpper : TypeWordsUpper[k] = piece]
    ELSE piece
LowerType(native) == [k \in DOMAIN native |-> LowerPiece(native[k])]

\* fragment in type_string
Contains(type_string, fragment) ==
    \E k \in 0..(Len(type_string) - Len(fragment)) :
        SubSeq(type_string, k + 1, k + Len(fragment)) = fragment
ContainsAny(type_string, fragments) ==
    \E fragment \in fragments : Contains(type_string, fragment)

\* type_string.startswith(prefix)
StartsWith(type_string, prefix) ==
    /\ Len(type_string) >= Len(prefix)
    /\ SubSeq(type_string, 1, Len(prefix)) = prefix

\* SQLiteDialect._sqlite_type_to_generic
sqlite_type_to_generic(sqlite_type) ==
    LET sqlite_type_lower == Strip(LowerType(sqlite_type))
    IN IF Contains(sqlite_type_lower, <<"int">>) THEN "integer"
       ELSE IF Contains(sqlite_type_lower, <<"bool">>) THEN "boolean"
       ELSE IF ContainsAny(sqlite_type_lower, {<<"char">>, <<"clob">>, <<"text">>})
       THEN "text"
       ELSE IF ContainsAny(sqlite_type_lower,
                           {<<"real">>, <<"floa">>, <<"doub">>, <<"numeric">>,
                            <<"decimal">>})
       THEN "number"
       ELSE "text"

\* PostgreSQLDialect._postgres_type_to_generic
postgres_type_to_generic(postgres_type) ==
    LET pg_type == Strip(LowerType(postgres_type))
    IN IF Contains(pg_type, <<"int">>) THEN "INTEGER"
       ELSE IF ContainsAny(pg_type, {<<"char">>, <<"text">>}) THEN "TEXT"
       ELSE IF ContainsAny(pg_type,
                           {<<"numeric">>, <<"decimal">>, <<"real">>,
                            <<"floa", "t">>, <<"doub", "le">>})
       THEN "NUMBER"
       ELSE IF StartsWith(pg_type, <<"timestamp">>) THEN "TIMESTAMP"
       ELSE IF Contains(pg_type, <<"date">>) THEN "DATE"
       ELSE IF Contains(pg_type, <<"bool">>) THEN "BOOLEAN"
       ELSE "TEXT"

\* The generic type names, and the spellings of them the mapping is given.
GenericTypes == {"text", "number", "integer", "boolean", "timestamp", "date"}
OtherTypes == {"unknown_type", "UNKNOWN_TYPE", "blob", ""}
GenericInputs ==
    GenericTypes
        \cup {"TEXT", "NUMBER", "INTEGER", "BOOLEAN", "TIMESTAMP", "DATE"}
        \cup {"Text", "Number", "Integer", "Boolean", "Timestamp", "Date"}
        \cup OtherTypes

\* str.lower() of a generic type name.
LowerName(sql_type) ==
    CASE sql_type \in {"TEXT", "Text"} -> "text"
      [] sql_type \in {"NUMBER", "Number"} -> "number"
      [] sql_type \in {"INTEGER", "Integer"} -> "integer"
      [] sql_type \in {"BOOLEAN", "Boolean"} -> "boolean"
      [] sql_type \in {"TIMESTAMP", "Timestamp"} -> "timestamp"
      [] sql_type \in {"DATE", "Date"} -> "date"
      [] sql_type = "UNKNOWN_TYPE" -> "unknown_type"
      [] OTHER -> sql_type

\* SQLiteDialect.map_type_to_ddl: mapping.get(sql_type.lower(), "TEXT")
SQLiteDialect_map_type_to_ddl(sql_type) ==
    CASE LowerName(sql_type) = "text" -> "TEXT"
      [] LowerName(sql_type) = "number" -> "REAL"
      [] LowerName(sql_type) = "integer" -> "INTEGER"
      [] LowerName(sql_type) = "boolean" -> "BOOLEAN"
      [] OTHER -> "TEXT"

\* Mutant: the mapping is looked up without lower().
PostgreSQLDialect_map_type_to_ddl_CaseSensitive(sql_type) ==
    CASE sql_type = "text" -> "TEXT"
      [] sql_type = "number" -> "NUMERIC"
      [] sql_type = "integer" -> "INTEGER"
      [] sql_type = "boolean" -> "BOOLEAN"
      [] sql_type = "timestamp" -> "TIMESTAMP"
      [] sql_type = "date" -> "DATE"
      [] OTHER -> "TEXT"

\* PostgreSQLDialect.map_type_to_ddl: mapping.get(sql_type.lower(), "TEXT")
PostgreSQLDialect_map_type_to_ddl(sql_type) ==
    CASE LowerName(sql_type) = "text" -> "TEXT"
      [] LowerName(sql_type) = "number" -> "NUMERIC"
      [] LowerName(sql_type) = "integer" -> "INTEGER"
      [] LowerName(sql_type) = "boolean" -> "BOOLEAN"
      [] LowerName(sql_type) = "timestamp" -> "TIMESTAMP"
      [] LowerName(sql_type) = "date" -> "DATE"
      [] OTHER -> "TEXT"

\* dialect.map_type_to_ddl, by the class of the dialect.
map_type_to_ddl(dialect, sql_type) ==
    IF dialect = "sqlite" THEN SQLiteDialect_map_type_to_ddl(sql_type)
    ELSE PostgreSQLDialect_map_type_to_ddl(sql_type)

\* The generic type _get_ddl_from_db gives a column of the native type.
type_to_generic(dialect, native_type) ==
    IF dialect = "sqlite" THEN sqlite_type_to_generic(native_type)
    ELSE postgres_type_to_generic(native_type)

TypeInit == ComponentInit /\ concurrent = FALSE

\* map_type_to_ddl is called on a generic type name.
Type_Map ==
    /\ unit = IdleUnit
    /\ \E dialect \in SupportedDialects, sql_type \in GenericInputs :
         unit' = [fn |-> "map_type_to_ddl", dialect |-> dialect,
                  sql_type |-> sql_type, native_type |-> <<>>,
                  ddl_type |-> map_type_to_ddl(dialect, sql_type)]
    /\ UnitUnchanged

\* _get_ddl_from_db writes the type of one column.
Type_Column ==
    /\ unit = IdleUnit
    /\ \E dialect \in SupportedDialects, native_type \in NativeTypes :
         unit' = [fn |-> "column_type", dialect |-> dialect,
                  sql_type |-> type_to_generic(dialect, native_type),
                  native_type |-> native_type,
                  ddl_type |-> map_type_to_ddl(dialect,
                                  type_to_generic(dialect, native_type))]
    /\ UnitUnchanged

TypeNext == Type_Map \/ Type_Column

TypeSpec == TypeInit /\ [][TypeNext]_vars

\* The DDL types each dialect writes.
DDLTypes(dialect) ==
    IF dialect = "sqlite" THEN {"TEXT", "REAL", "INTEGER", "BOOLEAN"}
    ELSE {"TEXT", "NUMERIC", "INTEGER", "BOOLEAN", "TIMESTAMP", "DATE"}

\* The DDL type of a generic type name, whatever its case: the six names as
\* each dialect maps them, TEXT for anything else.
ExpectedDDLType(dialect, sql_type) ==
    CASE sql_type \in {"text", "TEXT", "Text"} -> "TEXT"
      [] sql_type \in {"number", "NUMBER", "Number"} ->
            IF dialect = "sqlite" THEN "REAL" ELSE "NUMERIC"
      [] sql_type \in {"integer", "INTEGER", "Integer"} -> "INTEGER"
      [] sql_type \in {"boolean", "BOOLEAN", "Boolean"} -> "BOOLEAN"
      [] sql_type \in {"timestamp", "TIMESTAMP", "Timestamp"} ->
            IF dialect = "sqlite" THEN "TEXT" ELSE "TIMESTAMP"
      [] sql_type \in {"date", "DATE", "Date"} ->
            IF dialect = "sqlite" THEN "TEXT" ELSE "DATE"
      [] OTHER -> "TEXT"

\* C30: in both dialects map_type_to_ddl gives every generic type name, in
\* any case, its fixed DDL type and anything else TEXT; after the dialect's
\* classifier of native types it gives every native type string a DDL type
\* of the dialect's output set.
C30_TypeMappingTotal ==
    /\ unit.fn = "map_type_to_ddl" =>
          unit.ddl_type = ExpectedDDLType(unit.dialect, unit.sql_type)
    /\ unit.fn = "column_type" =>
          /\ unit.ddl_type \in DDLTypes(unit.dialect)
          /\ unit.ddl_type = ExpectedDDLType(unit.dialect, unit.sql_type)

\* A PostgreSQL column of a native type written in upper case, classified
\* as NUMBER and written as NUMERIC.
C30_Witness ==
    /\ unit.fn = "column_type"
    /\ unit.dialect = "postgresql"
    /\ unit.native_type = <<"DOUB", "LE">>
    /\ unit.sql_type = "NUMBER"
    /\ unit.ddl_type = "NUMERIC"

=============================================================================
